---- MODULE Spec2Model ----
(***************************************************************************)
(* Model of the DynamoDB event store of eh-dynamodb (eventstore.go).       *)
(*                                                                         *)
(* The tables of the backing store are sets of items.  Every request that  *)
(* reaches the backing store (a conditional put, a query) is one atomic    *)
(* step; the local computation of a call between two requests is part of   *)
(* the step of the request that follows it.  Each caller runs one call at  *)
(* a time; `call[p]` holds the locals of the call of caller p.             *)
(***************************************************************************)
EXTENDS Integers, Sequences, FiniteSets, TLC

VARIABLES
    tables,        \* table name -> set of items (the DynamoDB tables)
    eventHandler,  \* EventStore.eventHandler: Nil or a handler
    call,          \* caller -> locals of its call in progress
    puts           \* history: <<table, id, version>> -> number of successful Save puts

vars == <<tables, eventHandler, call, puts>>

----------------------------------------------------------------------------
(* Bounds of the model *)

MaxVersion == 3
MaxBatch == 2

Procs == {"p1", "p2"}
AggregateIDs == {"a1", "a2"}
Versions == 1 .. MaxVersion
OriginalVersions == 0 .. MaxVersion - 1
Namespaces == {"default", "tenant"}
Nil == "nil"
\* The nil of a pointer, a map or an interface that holds a structured value.
NilValue == [nil |-> TRUE]

----------------------------------------------------------------------------
(* Events and their payloads *)

\* Payloads: a struct with one field; Unencodable stands for a payload whose
\* marshaler reports an error.
Payload(n) == [Content |-> n]
Unencodable == [Content |-> -1]

Event(id, v, t, d, ts) ==
    [AggregateID |-> id, Version |-> v, EventType |-> t, Data |-> d,
     Timestamp |-> ts, AggregateType |-> "Aggregate", Metadata |-> "meta"]

EventStoreError(err, base, ns) ==
    [type |-> "EventStoreError", Err |-> err, BaseErr |-> base,
     Event |-> NilValue, Namespace |-> ns]

CouldNotHandleEventError(err, e, ns) ==
    [type |-> "CouldNotHandleEventError", Err |-> err, BaseErr |-> Nil,
     Event |-> e, Namespace |-> ns]

NoError ==
    [type |-> Nil, Err |-> Nil, BaseErr |-> Nil, Event |-> NilValue, Namespace |-> Nil]

\* One of the error values of eventhorizon, returned as it is.
BareError(err) ==
    [type |-> "error", Err |-> err, BaseErr |-> Nil, Event |-> NilValue, Namespace |-> Nil]

NamespaceFromContext(ctx) == ctx

\* NewEventStore: the closure formats the table name from the constructor's
\* argument and the namespace of the context.
TablePrefix == "events"

\* A table name that leaves the namespace out.
tableNameOfPrefix(ctx) == <<TablePrefix>>

tableName(ctx) == <<TablePrefix, "_", NamespaceFromContext(ctx)>>
TableNames == {tableName(ns) : ns \in Namespaces}

----------------------------------------------------------------------------
(* The codec *)

\* dynamodbattribute.MarshalMap: a struct becomes a map of attribute values.
MarshalMap(d) ==
    IF d = Unencodable
    THEN [av |-> NilValue, err |-> "MarshalError"]
    ELSE [av |-> [Content |-> [N |-> d.Content]], err |-> Nil]

newDBEvent(ctx, event) ==
    LET m == IF event.Data # NilValue THEN MarshalMap(event.Data)
             ELSE [av |-> NilValue, err |-> Nil]
    IN  IF m.err # Nil
        THEN [e |-> NilValue,
              err |-> EventStoreError("ErrCouldNotMarshalEvent", m.err, NamespaceFromContext(ctx))]
        ELSE [e |-> [AggregateID |-> event.AggregateID, Version |-> event.Version,
                     EventType |-> event.EventType, RawData |-> m.av,
                     Timestamp |-> event.Timestamp,
                     AggregateType |-> event.AggregateType,
                     Metadata |-> event.Metadata],
              err |-> NoError]

\* The event types that have registered event data, and eh.CreateEventData.
RegisteredEventData == {"A"}
CreateEventData(t) ==
    IF t \in RegisteredEventData
    THEN [data |-> Payload(0), err |-> Nil]
    ELSE [data |-> NilValue, err |-> "ErrEventDataNotRegistered"]

\* dynamodbattribute.UnmarshalMap into a fresh instance: a nil map leaves the
\* instance as it is.
UnmarshalMap(raw, data) ==
    IF raw = NilValue THEN [data |-> data, err |-> Nil]
    ELSE IF "Content" \in DOMAIN raw /\ "N" \in DOMAIN raw.Content
    THEN [data |-> [data EXCEPT !.Content = raw.Content.N], err |-> Nil]
    ELSE [data |-> data, err |-> "UnmarshalTypeError"]

\* A decoding that fails on a type without registered event data.
buildEventRegisteredOnly(ctx, dbEvent) ==
    LET made == CreateEventData(dbEvent.EventType)
        base == [AggregateID |-> dbEvent.AggregateID, Version |-> dbEvent.Version,
                 EventType |-> dbEvent.EventType, RawData |-> NilValue,
                 data |-> NilValue, Timestamp |-> dbEvent.Timestamp,
                 AggregateType |-> dbEvent.AggregateType, Metadata |-> dbEvent.Metadata]
        u == UnmarshalMap(dbEvent.RawData, made.data)
    IN  IF made.err # Nil \/ u.err # Nil
        THEN [event |-> NilValue,
              err |-> EventStoreError("ErrCouldNotUnmarshalEvent", made.err,
                                      NamespaceFromContext(ctx))]
        ELSE [event |-> [base EXCEPT !.data = u.data], err |-> NoError]

\* The body of the loop of buildEvents for one record.
buildEvent(ctx, dbEvent) ==
    LET made == CreateEventData(dbEvent.EventType)
        base == [AggregateID |-> dbEvent.AggregateID, Version |-> dbEvent.Version,
                 EventType |-> dbEvent.EventType, RawData |-> dbEvent.RawData,
                 data |-> NilValue, Timestamp |-> dbEvent.Timestamp,
                 AggregateType |-> dbEvent.AggregateType, Metadata |-> dbEvent.Metadata]
    IN  IF made.err = Nil
        THEN LET u == UnmarshalMap(dbEvent.RawData, made.data)
             IN  IF u.err # Nil
                 THEN [event |-> NilValue,
                       err |-> EventStoreError("ErrCouldNotUnmarshalEvent", u.err,
                                               NamespaceFromContext(ctx))]
                 ELSE [event |-> [base EXCEPT !.data = u.data, !.RawData = NilValue],
                       err |-> NoError]
        ELSE [event |-> base, err |-> NoError]

\* buildEvents: the events of the records, or the first error.
buildEvents(ctx, dbEvents) ==
    LET built == [n \in 1 .. Len(dbEvents) |-> buildEvent(ctx, dbEvents[n])]
        bad == {n \in 1 .. Len(dbEvents) : built[n].err # NoError}
    IN  IF bad # {}
        THEN [events |-> <<>>, err |-> built[CHOOSE n \in bad : \A m \in bad : n <= m].err]
        ELSE [events |-> [n \in 1 .. Len(dbEvents) |-> built[n].event], err |-> NoError]

----------------------------------------------------------------------------
(* The backing store *)

NoItem == [x \in {} |-> Nil]

\* The item of table t with the primary key (id, v), NoItem when there is none.
ItemAt(t, id, v) ==
    LET S == {x \in t : x.AggregateID = id /\ x.Version = v}
    IN  IF S = {} THEN NoItem ELSE CHOOSE x \in S : TRUE

attribute_not_exists(item, a) == a \notin DOMAIN item
attribute_exists(item, a) == a \in DOMAIN item

\* A put whose condition expression is left out.
AppendConditionOmitted(item) == TRUE

\* Save's condition expression.
AppendCondition(item) ==
    attribute_not_exists(item, "AggregateID") /\ attribute_not_exists(item, "Version")

\* table.Put(e).If(cond).Run(): the condition is evaluated on the item that has
\* the key of e; a put replaces that item.  fault: the request fails before
\* the store applies it.
PutIf(t, e, condHolds, fault) ==
    IF fault
    THEN [t |-> t, err |-> "InternalServerError"]
    ELSE IF ~condHolds
    THEN [t |-> t, err |-> "ConditionalCheckFailedException"]
    ELSE [t |-> {x \in t : ~(x.AggregateID = e.AggregateID /\ x.Version = e.Version)} \cup {e},
          err |-> Nil]

RECURSIVE SortByVersion(_)
\* The items of S in ascending order of the range key.
SortByVersion(S) ==
    IF S = {} THEN <<>>
    ELSE LET x == CHOOSE y \in S : \A z \in S : y.Version <= z.Version
         IN  <<x>> \o SortByVersion(S \ {x})

\* A query that returns the partition in descending order of the range key.
QueryAllDescending(t, id) ==
    LET asc == SortByVersion({x \in t : x.AggregateID = id})
    IN  [n \in 1 .. Len(asc) |-> asc[Len(asc) + 1 - n]]

\* table.Get("AggregateID", id).All(): the items of one partition, in the
\* order of the range key.
QueryAll(t, id) == SortByVersion({x \in t : x.AggregateID = id})

\* A put of Replace without its condition.
ReplaceConditionOmitted(item) == TRUE

\* Replace's condition expression.
ReplaceCondition(item) ==
    attribute_exists(item, "AggregateID") /\ attribute_exists(item, "Version")

\* An update of RenameEvent without its condition.
RenameConditionOmitted(item, from) == TRUE

\* RenameEvent's condition expression, "EventType = ?" with the value from.
RenameCondition(item, from) ==
    attribute_exists(item, "EventType") /\ item.EventType = from

\* An update that ignores the range key.
UpdateIfWholePartition(t, id, v, condHolds, val, fault) ==
    IF fault
    THEN [t |-> t, err |-> "InternalServerError"]
    ELSE IF ~condHolds
    THEN [t |-> t, err |-> "ConditionalCheckFailedException"]
    ELSE [t |-> {IF x.AggregateID = id THEN [x EXCEPT !.EventType = val] ELSE x : x \in t},
          err |-> Nil]

\* table.Update(hash key, id).Range(range key, v).If(cond).Set(attr, val).Run():
\* the condition is evaluated on the item at the key.
UpdateIf(t, id, v, condHolds, val, fault) ==
    IF fault
    THEN [t |-> t, err |-> "InternalServerError"]
    ELSE IF ~condHolds
    THEN [t |-> t, err |-> "ConditionalCheckFailedException"]
    ELSE [t |-> {IF x.AggregateID = id /\ x.Version = v
                 THEN [x EXCEPT !.EventType = val] ELSE x : x \in t},
          err |-> Nil]

\* The orders in which a scan may go through the partitions of a table.
PartitionOrders ==
    {o \in [1 .. Cardinality(AggregateIDs) -> AggregateIDs] :
        \A n, m \in DOMAIN o : o[n] = o[m] => n = m}

RECURSIVE Concat(_)
Concat(ss) == IF ss = << >> THEN << >> ELSE Head(ss) \o Concat(Tail(ss))

\* table.Scan().All(): the items of the table, partition after partition in
\* the order o, each partition in the order of the range key.
ScanAll(t, o) == Concat([n \in DOMAIN o |-> QueryAll(t, o[n])])

\* A scan that applies no filter.
ScanUnfiltered(t, o, from) == ScanAll(t, o)

\* table.Scan().Filter("EventType = ?", from).All().
ScanFilter(t, o, from) == SelectSeq(ScanAll(t, o), LAMBDA x : x.EventType = from)

\* The table exists; a table that does not exist holds no item.
TableExists(tn) == tn \in DOMAIN tables
Items(tn) == IF TableExists(tn) THEN tables[tn] ELSE {}

\* The errors of a request to the table tn that the store may answer with
\* before it applies the request: none (FALSE) or a failure (TRUE).  A request
\* to a table that does not exist always fails.
Faults(tn) == IF TableExists(tn) THEN BOOLEAN ELSE {TRUE}

\* The error of a failed request to the table tn.
RequestError(tn) ==
    IF TableExists(tn) THEN "InternalServerError" ELSE "ResourceNotFoundException"

----------------------------------------------------------------------------
(* Calls *)

\* What a caller recalls of its last call when it has made none.
NoCall == [op |-> Nil, from |-> Nil, to |-> Nil, ret |-> NoError]

\* What a caller knows of the streams when it has loaded none: for each
\* aggregate the highest version that a Load has returned to it, -1 for none.
NoLoads == [id \in AggregateIDs |-> -1]

Idle ==
    [pc |-> "idle", op |-> Nil, ctx |-> Nil, events |-> <<>>, originalVersion |-> 0,
     aggregateID |-> Nil, version |-> 0, i |-> 0, h |-> 0, ret |-> NoError,
     result |-> <<>>, before |-> {}, writeLog |-> <<>>, attempts |-> 0, handled |-> <<>>,
     from |-> Nil, to |-> Nil, dbEvents |-> <<>>, prev |-> NoCall,
     loaded |-> NoLoads]

\* History: one more successful put of Save at the slot k.
CountPut(k) ==
    IF k \in DOMAIN puts THEN [puts EXCEPT ![k] = @ + 1] ELSE puts @@ (k :> 1)

PutsAt(k) == IF k \in DOMAIN puts THEN puts[k] ELSE 0

\* History: the puts at the slots of the tables other than tn.
PutsOutside(tn) == [k \in {j \in DOMAIN puts : j[1] # tn} |-> puts[k]]

\* The call of p returns err.
Return(c, err) == [c EXCEPT !.pc = "done", !.ret = err]

\* Save, up to the loop over the events.
SaveBegin(p, ctx, events, originalVersion) ==
    /\ call[p].pc = "idle"
    /\ LET c == [Idle EXCEPT !.op = "Save", !.ctx = ctx, !.events = events,
                             !.originalVersion = originalVersion,
                             !.before = Items(tableName(ctx)),
                             !.loaded = call[p].loaded]
       IN  IF Len(events) = 0
           THEN call' = [call EXCEPT ![p] =
                    Return(c, EventStoreError("ErrNoEventsToAppend", Nil, NamespaceFromContext(ctx)))]
           ELSE call' = [call EXCEPT ![p] =
                    [c EXCEPT !.pc = "save_loop", !.aggregateID = events[1].AggregateID,
                              !.version = originalVersion, !.i = 1]]
    /\ UNCHANGED <<tables, eventHandler, puts>>

\* A failed put reported without telling the failed condition apart.
SaveWriteErrorGeneric(err, ns) == EventStoreError(err, err, ns)

\* The error Save returns for a put that failed with the store's error err.
SaveWriteError(err, ns) ==
    IF err = "ConditionalCheckFailedException"
    THEN EventStoreError("ErrCouldNotSaveAggregate", err, ns)
    ELSE EventStoreError(err, err, ns)

\* A range loop that ends one event early.
LoopEndedEarly(c) == c.i >= Len(c.events)

\* The range loop over the events has no event left.
LoopEnded(c) == c.i > Len(c.events)

\* The state of the call after the loop over the events has ended.
AfterWrites(c) ==
    IF eventHandler # Nil
    THEN [c EXCEPT !.pc = "save_handle", !.h = 1]
    ELSE Return(c, NoError)

\* A failed put whose error is dropped: Save returns nil.
OnPutFailureSwallowed(c, err) == Return(c, NoError)

\* A failed put after which the loop goes on with the next event.
OnPutFailureContinue(c, err) ==
    LET c2 == [c EXCEPT !.i = @ + 1]
    IN  IF LoopEnded(c2) THEN AfterWrites(c2) ELSE c2

\* The call after a put of its loop has failed with err: Save returns.
OnPutFailure(c, err) == Return(c, SaveWriteError(err, NamespaceFromContext(c.ctx)))

\* One iteration of the loop of Save: the checks of the event, its record and
\* its conditional put.
SaveLoop(p) ==
    LET c == call[p]
        ns == NamespaceFromContext(c.ctx)
    IN
    /\ c.pc = "save_loop"
    /\ LET event == c.events[c.i]
           tn == tableName(c.ctx)
       IN  IF event.AggregateID # c.aggregateID
           THEN /\ call' = [call EXCEPT ![p] = Return(c, EventStoreError("ErrInvalidEvent", Nil, ns))]
                /\ UNCHANGED <<tables, puts>>
           ELSE IF event.Version # c.version + 1
           THEN /\ call' = [call EXCEPT ![p] =
                        Return(c, EventStoreError("ErrIncorrectEventVersion", Nil, ns))]
                /\ UNCHANGED <<tables, puts>>
           ELSE LET r == newDBEvent(c.ctx, event)
                IN  IF r.err # NoError
                    THEN /\ call' = [call EXCEPT ![p] = Return(c, r.err)]
                         /\ UNCHANGED <<tables, puts>>
                    ELSE \E fault \in Faults(tn) :
                         LET old == ItemAt(Items(tn), r.e.AggregateID, r.e.Version)
                             res == PutIf(Items(tn), r.e, AppendCondition(old), fault)
                             c1 == [c EXCEPT !.version = @ + 1, !.attempts = @ + 1]
                         IN  IF res.err = Nil
                             THEN LET k == <<tn, r.e.AggregateID, r.e.Version>>
                                      c2 == [c1 EXCEPT !.i = @ + 1, !.writeLog = Append(@, k)]
                                  IN  /\ tables' = [tables EXCEPT ![tn] = res.t]
                                      /\ puts' = CountPut(k)
                                      /\ call' = [call EXCEPT ![p] =
                                             IF LoopEnded(c2) THEN AfterWrites(c2) ELSE c2]
                             ELSE /\ call' = [call EXCEPT ![p] =
                                         OnPutFailure(c1, IF fault THEN RequestError(tn)
                                                                   ELSE res.err)]
                                  /\ UNCHANGED <<tables, puts>>
    /\ UNCHANGED eventHandler

\* A handler failure reported with the first event of the batch.
OnHandlerFailureFirstEvent(c, e) ==
    Return(c, CouldNotHandleEventError("HandlerError", c.events[1],
                                       NamespaceFromContext(c.ctx)))

\* The call after the handler has failed on the event e: Save returns.
OnHandlerFailure(c, e) ==
    Return(c, CouldNotHandleEventError("HandlerError", e, NamespaceFromContext(c.ctx)))

\* One iteration of the loop over the events that calls the event handler.
SaveHandle(p) ==
    LET c == call[p]
    IN
    /\ c.pc = "save_handle"
    /\ LET e == c.events[c.h]
           c1 == [c EXCEPT !.handled = Append(@, e)]
       IN  \E failed \in BOOLEAN :
             call' = [call EXCEPT ![p] =
                IF failed
                THEN OnHandlerFailure(c1, e)
                ELSE IF c.h = Len(c.events)
                THEN Return(c1, NoError)
                ELSE [c1 EXCEPT !.h = @ + 1]]
    /\ UNCHANGED <<tables, eventHandler, puts>>

\* A query of Load that failed, reported whatever its error.
LoadQueryErrorReported(err, ns) == EventStoreError(err, err, ns)

\* The error Load returns for a query that failed with the store's error err:
\* none when the table does not exist.
LoadQueryError(err, ns) ==
    IF err = "ResourceNotFoundException" THEN NoError ELSE EventStoreError(err, err, ns)

\* Load: the query of the partition and the decoding of its records.
Load(p, ctx, id) ==
    /\ call[p].pc = "idle"
    /\ LET tn == tableName(ctx)
           c == [Idle EXCEPT !.op = "Load", !.ctx = ctx, !.aggregateID = id,
                             !.before = Items(tn), !.loaded = call[p].loaded]
       IN  \E fault \in Faults(tn) :
             IF fault
             THEN call' = [call EXCEPT ![p] =
                      Return(c, LoadQueryError(RequestError(tn), NamespaceFromContext(ctx)))]
             ELSE LET b == buildEvents(ctx, QueryAll(tables[tn], id))
                  IN  call' = [call EXCEPT ![p] = Return([c EXCEPT !.result = b.events], b.err)]
    /\ UNCHANGED <<tables, eventHandler, puts>>

\* CreateTable: the table is created if the store has none of its name.
CreateTable(p, ctx) ==
    LET tn == tableName(ctx)
        c == [Idle EXCEPT !.op = "CreateTable", !.ctx = ctx, !.before = Items(tn)]
    IN
    /\ call[p].pc = "idle"
    /\ \E fault \in BOOLEAN :
          IF fault
          THEN /\ call' = [call EXCEPT ![p] = Return(c, BareError("InternalServerError"))]
               /\ UNCHANGED tables
          ELSE IF TableExists(tn)
          THEN /\ call' = [call EXCEPT ![p] = Return(c, BareError("ResourceInUseException"))]
               /\ UNCHANGED tables
          ELSE /\ call' = [call EXCEPT ![p] = Return(c, NoError)]
               /\ tables' = [t \in DOMAIN tables \cup {tn} |->
                                IF t = tn THEN {} ELSE tables[t]]
    /\ UNCHANGED <<eventHandler, puts>>

\* DeleteTable: the table goes with its records; no error when the store has
\* no table of the name.
DeleteTable(p, ctx) ==
    LET tn == tableName(ctx)
        c == [Idle EXCEPT !.op = "DeleteTable", !.ctx = ctx, !.before = Items(tn)]
    IN
    /\ call[p].pc = "idle"
    /\ \E fault \in Faults(tn) :
          IF ~TableExists(tn)
          THEN /\ call' = [call EXCEPT ![p] = Return(c, NoError)]
               /\ UNCHANGED tables
          ELSE IF fault
          THEN /\ call' = [call EXCEPT ![p] = Return(c, BareError("ErrCouldNotClearDB"))]
               /\ UNCHANGED tables
          ELSE /\ call' = [call EXCEPT ![p] = Return(c, NoError)]
               /\ tables' = [t \in DOMAIN tables \ {tn} |-> tables[t]]
    /\ puts' = IF call'[p].ret = NoError THEN PutsOutside(tn) ELSE puts
    /\ UNCHANGED eventHandler

\* LoadAll: the scan of the table and the decoding of its records.
LoadAll(p, ctx) ==
    LET tn == tableName(ctx)
        c == [Idle EXCEPT !.op = "LoadAll", !.ctx = ctx, !.before = Items(tn)]
    IN
    /\ call[p].pc = "idle"
    /\ \E fault \in Faults(tn), o \in PartitionOrders :
          IF fault
          THEN call' = [call EXCEPT ![p] =
                   Return(c, EventStoreError(RequestError(tn), RequestError(tn),
                                             NamespaceFromContext(ctx)))]
          ELSE LET dbEvents == ScanAll(tables[tn], o)
                   b == buildEvents(ctx, dbEvents)
               IN  call' = [call EXCEPT ![p] =
                       Return([c EXCEPT !.result = b.events, !.dbEvents = dbEvents], b.err)]
    /\ UNCHANGED <<tables, eventHandler, puts>>

\* A count that never tells an aggregate without records.
NoRecordsNever(count) == FALSE

\* The test Replace makes on the count of the records of the aggregate.
NoRecords(count) == count = 0

\* Replace, up to its put: the count of the records of the aggregate.
ReplaceCount(p, ctx, event) ==
    LET tn == tableName(ctx)
        c == [Idle EXCEPT !.op = "Replace", !.ctx = ctx, !.events = <<event>>,
                          !.aggregateID = event.AggregateID, !.before = Items(tn)]
    IN
    /\ call[p].pc = "idle"
    /\ \E fault \in Faults(tn) :
          IF fault
          THEN call' = [call EXCEPT ![p] =
                   Return(c, EventStoreError(RequestError(tn), RequestError(tn),
                                             NamespaceFromContext(ctx)))]
          ELSE LET count == Len(QueryAll(tables[tn], event.AggregateID))
               IN  IF NoRecords(count)
                   THEN call' = [call EXCEPT ![p] = Return(c, BareError("ErrAggregateNotFound"))]
                   ELSE call' = [call EXCEPT ![p] = [c EXCEPT !.pc = "replace_put"]]
    /\ UNCHANGED <<tables, eventHandler, puts>>

\* The error Replace returns for a put that failed with the store's error err.
ReplaceWriteError(err, ns) ==
    IF err = "ConditionalCheckFailedException"
    THEN BareError("ErrInvalidEvent")
    ELSE EventStoreError(err, err, ns)

\* Replace: the record of the event and its conditional put.
ReplacePut(p) ==
    LET c == call[p]
        tn == tableName(c.ctx)
        r == newDBEvent(c.ctx, c.events[1])
    IN
    /\ c.pc = "replace_put"
    /\ IF r.err # NoError
       THEN /\ call' = [call EXCEPT ![p] = Return(c, r.err)]
            /\ UNCHANGED tables
       ELSE \E fault \in Faults(tn) :
            LET old == ItemAt(Items(tn), r.e.AggregateID, r.e.Version)
                res == PutIf(Items(tn), r.e, ReplaceCondition(old), fault)
                c1 == [c EXCEPT !.attempts = @ + 1]
            IN  IF res.err = Nil
                THEN /\ tables' = [tables EXCEPT ![tn] = res.t]
                     /\ call' = [call EXCEPT ![p] =
                            Return([c1 EXCEPT !.writeLog =
                                       Append(@, <<tn, r.e.AggregateID, r.e.Version>>)],
                                   NoError)]
                ELSE /\ call' = [call EXCEPT ![p] =
                            Return(c1, ReplaceWriteError(
                                IF fault THEN RequestError(tn) ELSE res.err,
                                NamespaceFromContext(c.ctx)))]
                     /\ UNCHANGED tables
    /\ UNCHANGED <<eventHandler, puts>>

\* RenameEvent, up to its loop: the scan of the records of the type from.
RenameScan(p, ctx, from, to) ==
    LET tn == tableName(ctx)
        c == [Idle EXCEPT !.op = "RenameEvent", !.ctx = ctx, !.from = from, !.to = to,
                          !.before = Items(tn), !.prev = call[p].prev]
    IN
    /\ call[p].pc = "idle"
    /\ \E fault \in Faults(tn), o \in PartitionOrders :
          IF fault
          THEN call' = [call EXCEPT ![p] =
                   Return(c, EventStoreError(RequestError(tn), RequestError(tn),
                                             NamespaceFromContext(ctx)))]
          ELSE LET dbEvents == ScanFilter(tables[tn], o, from)
               IN  call' = [call EXCEPT ![p] =
                       IF dbEvents = << >>
                       THEN Return(c, NoError)
                       ELSE [c EXCEPT !.pc = "rename_update", !.dbEvents = dbEvents, !.i = 1]]
    /\ UNCHANGED <<tables, eventHandler, puts>>

\* The call after an update of its loop has failed with err: RenameEvent
\* returns.
OnUpdateFailure(c, err) ==
    Return(c, EventStoreError(err, err, NamespaceFromContext(c.ctx)))

\* One iteration of the loop of RenameEvent: the conditional update of the
\* type of one scanned record.
RenameUpdate(p) ==
    LET c == call[p]
        tn == tableName(c.ctx)
    IN
    /\ c.pc = "rename_update"
    /\ \E fault \in Faults(tn) :
          LET dbEvent == c.dbEvents[c.i]
              old == ItemAt(Items(tn), dbEvent.AggregateID, dbEvent.Version)
              res == UpdateIf(Items(tn), dbEvent.AggregateID, dbEvent.Version,
                              RenameCondition(old, c.from), c.to, fault)
              c1 == [c EXCEPT !.attempts = @ + 1]
          IN  IF res.err = Nil
              THEN LET c2 == [c1 EXCEPT !.i = @ + 1,
                                        !.writeLog = Append(@, <<tn, dbEvent.AggregateID,
                                                                 dbEvent.Version>>)]
                   IN  /\ tables' = [tables EXCEPT ![tn] = res.t]
                       /\ call' = [call EXCEPT ![p] =
                              IF c2.i > Len(c2.dbEvents) THEN Return(c2, NoError) ELSE c2]
              ELSE /\ call' = [call EXCEPT ![p] =
                          OnUpdateFailure(c1, IF fault THEN RequestError(tn) ELSE res.err)]
                   /\ UNCHANGED tables
    /\ UNCHANGED <<eventHandler, puts>>

\* The caller takes the result of its call; it may call again.
Finish(p) ==
    /\ call[p].pc = "done"
    /\ call' = [call EXCEPT ![p] = Idle]
    /\ UNCHANGED <<tables, eventHandler, puts>>

\* The caller takes the result of its call and recalls the call if it
\* returned no error.
FinishRecalling(p) ==
    /\ call[p].pc = "done"
    /\ call' = [call EXCEPT ![p] =
           [Idle EXCEPT !.prev = IF call[p].ret = NoError
                                 THEN [op |-> call[p].op, from |-> call[p].from,
                                       to |-> call[p].to, ret |-> call[p].ret]
                                 ELSE NoCall]]
    /\ UNCHANGED <<tables, eventHandler, puts>>

\* The highest version of the events a Load has returned, 0 for none.
HighestVersion(events) ==
    IF events = << >> THEN 0
    ELSE CHOOSE v \in {events[n].Version : n \in 1 .. Len(events)} :
             \A n \in 1 .. Len(events) : events[n].Version <= v

\* The caller takes the result of its call and, of a Load that returned no
\* error, keeps the highest version returned for the aggregate.
FinishLoaded(p) ==
    LET c == call[p]
    IN
    /\ c.pc = "done"
    /\ call' = [call EXCEPT ![p] =
           [Idle EXCEPT !.loaded =
               IF c.op = "Load" /\ c.ret = NoError
               THEN [c.loaded EXCEPT ![c.aggregateID] = HighestVersion(c.result)]
               ELSE c.loaded]]
    /\ UNCHANGED <<tables, eventHandler, puts>>

\* A Save of a caller that has loaded the aggregate of the batch: the original
\* version is the highest version that the Load returned.
SaveLoaded(p, ctx, events) ==
    /\ call[p].loaded[events[1].AggregateID] >= 0
    /\ SaveBegin(p, ctx, events, call[p].loaded[events[1].AggregateID])

----------------------------------------------------------------------------
(* Inputs *)

\* The events id@s+1 .. id@s+k, in order.
ContiguousBatch(id, s, k) == [n \in 1 .. k |-> Event(id, s + n, "A", Payload(1), 1)]

\* The contiguous batches within the versions of the model.
Runs(ids) ==
    {ContiguousBatch(id, s, k) : id \in ids, s \in 0 .. MaxVersion - 1,
                                 k \in 1 .. MaxBatch} \ 
    {b \in {ContiguousBatch(id, s, k) : id \in ids, s \in 0 .. MaxVersion - 1,
                                        k \in 1 .. MaxBatch} : b[Len(b)].Version > MaxVersion}

\* The batches that differ from b in one event: a payload that cannot be
\* encoded, or, after the first event, another aggregate's event, a skipped
\* version or a repeated version.  Save reads no event after the first one it
\* rejects, so one defect per batch reaches every path of its loop.
Defective(b) ==
    {[b EXCEPT ![j].Data = Unencodable] : j \in 1 .. Len(b)}
    \cup {[b EXCEPT ![j].AggregateID = id] :
             j \in 2 .. Len(b), id \in AggregateIDs \ {b[1].AggregateID}}
    \cup {[b EXCEPT ![j].Version = @ + d] : j \in 2 .. Len(b), d \in {-1, 1}}

SaveBatches ==
    {<< >>} \cup Runs(AggregateIDs) \cup UNION {Defective(b) : b \in Runs(AggregateIDs)}

----------------------------------------------------------------------------
(* One caller: any sequence of calls *)

Init ==
    /\ tables = [tn \in TableNames |-> {}]
    /\ eventHandler \in {Nil, "handler"}
    /\ call = [p \in Procs |-> Idle]
    /\ puts = << >>

Next ==
    \/ \E events \in SaveBatches, ov \in OriginalVersions :
          SaveBegin("p1", "default", events, ov)
    \/ SaveLoop("p1")
    \/ SaveHandle("p1")
    \/ \E id \in AggregateIDs : Load("p1", "default", id)
    \/ Finish("p1")

Spec == Init /\ [][Next]_vars

----------------------------------------------------------------------------
(* Two callers whose Save calls interleave request by request *)

\* Each caller saves a contiguous batch of the aggregate a1 with the original
\* version that its batch continues.
ConcBatches == Runs({"a1"})

NextConc ==
    \E p \in Procs :
        \/ \E events \in ConcBatches :
              SaveBegin(p, "default", events, events[1].Version - 1)
        \/ SaveLoop(p)
        \/ SaveHandle(p)
        \/ Finish(p)

SpecConc == Init /\ [][NextConc]_vars

----------------------------------------------------------------------------
(* Two Save calls for the aggregate a1 with the same original version *)

\* The record Save writes for the event a1@v of a contiguous batch.
Stored(id, v) == newDBEvent("default", Event(id, v, "A", Payload(1), 1)).e

\* The versions of the aggregate id in the table t.
StoredVersions(t, id) == {x.Version : x \in {y \in t : y.AggregateID = id}}

\* The stream of a1 holds the versions 1 .. v, each written by one Save.
InitRace ==
    \E v \in OriginalVersions :
        /\ tables = [tn \in TableNames |->
                        IF tn = tableName("default")
                        THEN {Stored("a1", n) : n \in 1 .. v} ELSE {}]
        /\ puts = [k \in {<<tableName("default"), "a1", n>> : n \in 1 .. v} |-> 1]
        /\ eventHandler \in {Nil, "handler"}
        /\ call = [p \in Procs |-> Idle]

\* The original version of the two calls: the version of the stream when the
\* first of them starts.
RaceVersion ==
    IF \E q \in Procs : call[q].pc # "idle"
    THEN call[CHOOSE q \in Procs : call[q].pc # "idle"].originalVersion
    ELSE Cardinality(StoredVersions(tables[tableName("default")], "a1"))

\* A caller calls Save once, with a batch that starts at RaceVersion + 1.
RaceBegin(p) ==
    \E k \in 1 .. MaxBatch :
        SaveBegin(p, "default", ContiguousBatch("a1", RaceVersion, k), RaceVersion)

NextRace ==
    \E p \in Procs :
        \/ RaceBegin(p)
        \/ SaveLoop(p)
        \/ SaveHandle(p)

SpecRace == InitRace /\ [][NextRace]_vars

----------------------------------------------------------------------------
(* One caller that saves and replaces events *)

\* The tables exist and hold no record; no event handler is set.
InitStore ==
    /\ tables = [tn \in TableNames |-> {}]
    /\ eventHandler = Nil
    /\ call = [p \in Procs |-> Idle]
    /\ puts = << >>

\* The events a caller replaces with: another type, payload, time and
\* metadata than those of the saved events, or a payload that cannot be
\* encoded.
ReplaceEvents ==
    {[Event(id, v, "B", d, 2) EXCEPT !.Metadata = "meta2"] :
        id \in AggregateIDs, v \in Versions, d \in {Payload(2), Unencodable}}

NextReplace ==
    \/ \E events \in Runs(AggregateIDs) :
          SaveBegin("p1", "default", events, events[1].Version - 1)
    \/ SaveLoop("p1")
    \/ \E event \in ReplaceEvents : ReplaceCount("p1", "default", event)
    \/ ReplacePut("p1")
    \/ \E id \in AggregateIDs : Load("p1", "default", id)
    \/ Finish("p1")

SpecReplace == InitStore /\ [][NextReplace]_vars

----------------------------------------------------------------------------
(* One caller that saves and renames events *)

EventTypes == {"A", "B"}

\* The batch b with every event of the type t.
OfType(b, t) == [n \in DOMAIN b |-> [b[n] EXCEPT !.EventType = t]]

\* The caller saves one event at a time, of either type.
RenameBatches == {OfType(b, t) : b \in {r \in Runs(AggregateIDs) : Len(r) = 1},
                                 t \in EventTypes}

NextRename ==
    \/ \E events \in RenameBatches :
          SaveBegin("p1", "default", events, events[1].Version - 1)
    \/ SaveLoop("p1")
    \/ \E from, to \in EventTypes : RenameScan("p1", "default", from, to)
    \/ RenameUpdate("p1")
    \/ FinishRecalling("p1")

SpecRename == InitStore /\ [][NextRename]_vars

----------------------------------------------------------------------------
(* One caller that creates and deletes the table, saves and loads *)

\* NewEventStore creates no table.
InitNoTable ==
    /\ tables = [tn \in {} |-> {}]
    /\ eventHandler = Nil
    /\ call = [p \in Procs |-> Idle]
    /\ puts = << >>

\* The batch b with the payload d in every event.
WithData(b, d) == [n \in DOMAIN b |-> [b[n] EXCEPT !.Data = d]]

\* The caller saves one event at a time: for a1 an event of a type with or
\* without registered event data, with or without a payload; for a2 an event
\* of the registered type with a payload.
ReadBatches ==
    {WithData(OfType(b, t), d) : b \in {r \in Runs({"a1"}) : Len(r) = 1},
                                 t \in EventTypes, d \in {Payload(1), NilValue}}
    \cup {r \in Runs(AggregateIDs \ {"a1"}) : Len(r) = 1}

NextRead ==
    \/ CreateTable("p1", "default")
    \/ DeleteTable("p1", "default")
    \/ \E events \in ReadBatches :
          SaveBegin("p1", "default", events, events[1].Version - 1)
    \/ SaveLoop("p1")
    \/ \E id \in AggregateIDs : Load("p1", "default", id)
    \/ LoadAll("p1", "default")
    \/ Finish("p1")

SpecRead == InitNoTable /\ [][NextRead]_vars

----------------------------------------------------------------------------
(* One caller that works in two namespaces *)

\* The caller saves one event of a1 at a time, and replaces an event of a1
\* with one of the other type.
NamespaceBatches == {r \in Runs({"a1"}) : Len(r) = 1}
NamespaceReplaceEvents == {Event("a1", v, "B", Payload(1), 1) : v \in Versions}

NextNamespaces ==
    \E ctx \in Namespaces :
        \/ \E events \in NamespaceBatches :
              SaveBegin("p1", ctx, events, events[1].Version - 1)
        \/ SaveLoop("p1")
        \/ \E event \in NamespaceReplaceEvents : ReplaceCount("p1", ctx, event)
        \/ ReplacePut("p1")
        \/ \E from, to \in EventTypes : RenameScan("p1", ctx, from, to)
        \/ RenameUpdate("p1")
        \/ Load("p1", ctx, "a1")
        \/ LoadAll("p1", ctx)
        \/ Finish("p1")

SpecNamespaces == InitStore /\ [][NextNamespaces]_vars

----------------------------------------------------------------------------
(* Two callers whose RenameEvent and Replace calls interleave request by
   request *)

\* The stream of a1 holds the versions 1 .. MaxVersion, each of the type A.
InitRenameRace ==
    /\ tables = [tn \in TableNames |->
                    IF tn = tableName("default")
                    THEN {Stored("a1", n) : n \in 1 .. MaxVersion} ELSE {}]
    /\ puts = [k \in {<<tableName("default"), "a1", n>> : n \in 1 .. MaxVersion} |-> 1]
    /\ eventHandler = Nil
    /\ call = [p \in Procs |-> Idle]

\* The events a caller replaces with: the stored events, of either type.
RaceReplaceEvents ==
    {Event("a1", v, t, Payload(1), 1) : v \in Versions, t \in EventTypes}

NextRenameRace ==
    \E p \in Procs :
        \/ \E from \in EventTypes : \E to \in EventTypes \ {from} :
              RenameScan(p, "default", from, to)
        \/ RenameUpdate(p)
        \/ \E event \in RaceReplaceEvents : ReplaceCount(p, "default", event)
        \/ ReplacePut(p)
        \/ Finish(p)

SpecRenameRace == InitRenameRace /\ [][NextRenameRace]_vars

----------------------------------------------------------------------------
(* Two callers whose calls of every operation interleave request by request *)

\* Each caller saves the first events of a1, replaces an event of a1 with one
\* of the type B, renames one type to the other, and loads.
StoreBatches == {ContiguousBatch("a1", 0, k) : k \in 1 .. MaxBatch}

NextStore ==
    \E p \in Procs :
        \/ \E events \in StoreBatches : SaveBegin(p, "default", events, 0)
        \/ SaveLoop(p)
        \/ \E event \in NamespaceReplaceEvents : ReplaceCount(p, "default", event)
        \/ ReplacePut(p)
        \/ \E from \in EventTypes : \E to \in EventTypes \ {from} :
              RenameScan(p, "default", from, to)
        \/ RenameUpdate(p)
        \/ Load(p, "default", "a1")
        \/ LoadAll(p, "default")
        \/ Finish(p)

SpecStore == InitStore /\ [][NextStore]_vars

----------------------------------------------------------------------------
(* Two callers that load an aggregate before they save its events *)

NextProtocol ==
    \E p \in Procs :
        \/ \E id \in AggregateIDs : Load(p, "default", id)
        \/ \E events \in ConcBatches : SaveLoaded(p, "default", events)
        \/ SaveLoop(p)
        \/ FinishLoaded(p)

SpecProtocol == InitStore /\ [][NextProtocol]_vars

----------------------------------------------------------------------------
(* Properties *)

Default == tableName("default")

\* The slots of the events of the call c, in batch order.
BatchKeys(c) ==
    [n \in 1 .. Len(c.events) |-> <<tableName(c.ctx), c.events[n].AggregateID, c.events[n].Version>>]

Occupied(k) == ItemAt(tables[k[1]], k[2], k[3]) # NoItem

SaveDone(c) == c.op = "Save" /\ c.pc = "done"

Conflict(c) == c.ret.type = "EventStoreError" /\ c.ret.Err = "ErrCouldNotSaveAggregate"

StorageFailure(c) == c.ret.type = "EventStoreError" /\ c.ret.Err = "InternalServerError"

HandlerFailure(c) == c.ret.type = "CouldNotHandleEventError"

\* The call has put every event of its batch.
WroteAll(c) == c.writeLog = BatchKeys(c)

\* The first event of the batch of c whose slot holds a record that c did not
\* write; 0 when there is none.
FirstTaken(c) ==
    LET T == {n \in 1 .. Len(c.events) :
                 /\ Occupied(BatchKeys(c)[n])
                 /\ \A m \in 1 .. Len(c.writeLog) : c.writeLog[m] # BatchKeys(c)[n]}
    IN  IF T = {} THEN 0 ELSE CHOOSE n \in T : \A m \in T : n <= m

\* C1: of two Save calls for one aggregate that have the same original version
\* v and batches that start at v + 1, on a stream that held 1 .. v, with their
\* puts interleaved in any way and no put lost to a failure of the store,
\* exactly one puts all its events; the other returns ErrCouldNotSaveAggregate
\* at the first event of its batch whose slot is taken, and that is its first.
C1_OneOfTwoSavesWins ==
    \A p, q \in Procs :
        ( /\ p # q
          /\ SaveDone(call[p]) /\ SaveDone(call[q])
          /\ call[p].originalVersion = call[q].originalVersion
          /\ call[p].events[1] = call[q].events[1]
          /\ ~StorageFailure(call[p]) /\ ~StorageFailure(call[q]) )
        => \E w \in {p, q} :
             LET l == CHOOSE x \in {p, q} : x # w
             IN  /\ WroteAll(call[w])
                 /\ ~Conflict(call[w])
                 /\ Conflict(call[l])
                 /\ ~WroteAll(call[l])
                 /\ call[l].i = FirstTaken(call[l])
                 /\ call[l].i = 1
                 /\ call[l].writeLog = << >>

\* C1, reached: both calls have returned, the one that wrote its two events
\* and the one that met the conflict with a batch of two events.
C1_Witness ==
    /\ SaveDone(call["p1"]) /\ SaveDone(call["p2"])
    /\ Len(call["p1"].events) = 2 /\ Len(call["p2"].events) = 2
    /\ call["p1"].originalVersion = 1
    /\ WroteAll(call["p1"])
    /\ Conflict(call["p2"])

\* C2: a slot (AggregateID, Version) of a table holds at most one record, the
\* record in it was put by exactly one put of one Save (no put of Save ever
\* replaces a record), no two calls have put the same slot, and a Save that
\* returned the conflict error asked for a slot that another call had filled.
C2_SlotWrittenOnce ==
    /\ \A tn \in TableNames : \A x \in tables[tn] :
          /\ Cardinality({y \in tables[tn] :
                             y.AggregateID = x.AggregateID /\ y.Version = x.Version}) = 1
          /\ PutsAt(<<tn, x.AggregateID, x.Version>>) = 1
    /\ \A k \in DOMAIN puts : puts[k] = 1 /\ Occupied(k)
    /\ \A p, q \in Procs : \A n \in 1 .. Len(call[p].writeLog) :
          \A m \in 1 .. Len(call[q].writeLog) :
             call[p].writeLog[n] = call[q].writeLog[m] => p = q /\ n = m
    /\ \A p \in Procs :
          SaveDone(call[p]) /\ Conflict(call[p])
          => /\ Occupied(BatchKeys(call[p])[call[p].i])
             /\ \A n \in 1 .. Len(call[p].writeLog) :
                   call[p].writeLog[n] # BatchKeys(call[p])[call[p].i]

\* C2, reached: p2 has met the conflict at a slot that p1, still in its call,
\* has put.
C2_Witness ==
    /\ call["p1"].op = "Save" /\ call["p1"].pc # "idle"
    /\ SaveDone(call["p2"]) /\ Conflict(call["p2"])
    /\ \E n \in 1 .. Len(call["p1"].writeLog) :
          call["p1"].writeLog[n] = BatchKeys(call["p2"])[call["p2"].i]

\* C3: in every state the versions stored for an aggregate are 1 .. n for
\* some n, whatever the original versions and batches of the calls.
C3_VersionsContiguous ==
    \A tn \in TableNames : \A id \in AggregateIDs :
        StoredVersions(tables[tn], id) = 1 .. Cardinality(StoredVersions(tables[tn], id))

\* What Load returns for the aggregate id from the items t.
LoadOf(t, ctx, id) == buildEvents(ctx, QueryAll(t, id)).events

\* The loaded event l has the fields of the saved event e.
SameEvent(l, e) ==
    /\ l.AggregateID = e.AggregateID /\ l.Version = e.Version
    /\ l.EventType = e.EventType /\ l.Timestamp = e.Timestamp
    /\ l.AggregateType = e.AggregateType /\ l.Metadata = e.Metadata
    /\ l.data = e.Data

\* The batch of c has k >= 1 events of one aggregate with the versions
\* v + 1 .. v + k in order, v the original version, each with a payload that
\* can be encoded.
ValidBatch(c) ==
    /\ Len(c.events) >= 1
    /\ \A n \in 1 .. Len(c.events) :
          /\ c.events[n].AggregateID = c.events[1].AggregateID
          /\ c.events[n].Version = c.originalVersion + n
          /\ c.events[n].Data # Unencodable

ValidationError(c) ==
    /\ c.ret.type = "EventStoreError"
    /\ c.ret.Err \in {"ErrNoEventsToAppend", "ErrInvalidEvent", "ErrIncorrectEventVersion"}

EncodingError(c) == c.ret.type = "EventStoreError" /\ c.ret.Err = "ErrCouldNotMarshalEvent"

WriteFailure(c) == Conflict(c) \/ StorageFailure(c)

\* C4: a Save of a valid batch v + 1 .. v + k with the original version v, on
\* a stream that holds exactly 1 .. v, with no other writer, returns no error
\* (the store and the handler not failing), and Load then returns the events
\* it returned before followed by the k events, in ascending version order.
C4_SaveThenLoad ==
    \A p \in Procs :
        LET c == call[p]
            id == c.events[1].AggregateID
            k == Len(c.events)
            was == LoadOf(c.before, c.ctx, id)
            now == LoadOf(tables[tableName(c.ctx)], c.ctx, id)
        IN  ( /\ SaveDone(c)
              /\ ValidBatch(c)
              /\ StoredVersions(c.before, id) = 1 .. c.originalVersion
              /\ ~StorageFailure(c) )
            => /\ ~HandlerFailure(c) => c.ret = NoError
               /\ Len(now) = Len(was) + k
               /\ SubSeq(now, 1, Len(was)) = was
               /\ \A n \in 1 .. k : SameEvent(now[Len(was) + n], c.events[n])
               /\ \A n \in 1 .. Len(now) : now[n].Version = n

\* C4, reached: a batch of two events saved on a stream of one event.
C4_Witness ==
    LET c == call["p1"]
    IN  /\ SaveDone(c) /\ c.ret = NoError
        /\ Len(c.events) = 2 /\ c.originalVersion = 1
        /\ StoredVersions(c.before, c.events[1].AggregateID) = {1}
        /\ Len(LoadOf(tables[Default], "default", c.events[1].AggregateID)) = 3

\* C5: a Save that returns a validation error has put no event of its batch.
C5_RejectedBatchWritesNothing ==
    \A p \in Procs :
        SaveDone(call[p]) /\ ValidationError(call[p])
        => /\ call[p].writeLog = << >>
           /\ call[p].attempts = 0
           /\ tables[tableName(call[p].ctx)] = call[p].before

\* C6: a Save whose first event asks for a slot that holds a record returns
\* ErrCouldNotSaveAggregate, not the error of a failure of the store, and the
\* table and what Load returns are as before the call.
C6_ConflictLeavesStore ==
    \A p \in Procs :
        LET c == call[p]
            e == c.events[1]
        IN  ( /\ SaveDone(c)
              /\ Len(c.events) >= 1
              /\ e.Version = c.originalVersion + 1
              /\ e.Data # Unencodable
              /\ ItemAt(c.before, e.AggregateID, e.Version) # NoItem
              /\ ~StorageFailure(c) )
            => /\ Conflict(c)
               /\ c.ret.BaseErr = "ConditionalCheckFailedException"
               /\ c.ret.Err # c.ret.BaseErr
               /\ c.writeLog = << >>
               /\ tables[tableName(c.ctx)] = c.before
               /\ LoadOf(tables[tableName(c.ctx)], c.ctx, e.AggregateID)
                    = LoadOf(c.before, c.ctx, e.AggregateID)

\* C6, reached: the versions 1 .. 3 are stored and a Save of one event with
\* the version 3 and the original version 2 has returned the conflict.
C6_Witness ==
    LET c == call["p1"]
    IN  /\ SaveDone(c) /\ Conflict(c)
        /\ Len(c.events) = 1 /\ c.events[1].Version = 3 /\ c.originalVersion = 2
        /\ StoredVersions(c.before, c.events[1].AggregateID) = {1, 2, 3}
        /\ Len(LoadOf(tables[Default], "default", c.events[1].AggregateID)) = 3

\* C7: when the put of the N-th event of a batch fails, Save returns that
\* error at once: it has sent N puts and no more (no retry), the events
\* 1 .. N - 1 are in the table and stay there (no delete), and no event from N
\* on is put by the call.
C7_PartialBatchStays ==
    \A p \in Procs :
        LET c == call[p]
        IN  c.op = "Save"
            => /\ c.attempts > Len(c.writeLog)
                  => c.pc = "done" /\ WriteFailure(c) /\ c.attempts = Len(c.writeLog) + 1
               /\ SaveDone(c) /\ WriteFailure(c)
                  => /\ c.attempts = c.i
                     /\ c.writeLog = SubSeq(BatchKeys(c), 1, c.i - 1)
                     /\ \A n \in 1 .. c.i - 1 : Occupied(BatchKeys(c)[n])

\* C7, reached: the put of the second event of a batch of two has met the
\* condition; the first event is in the table.
C7_Witness ==
    LET c == call["p1"]
    IN  /\ SaveDone(c) /\ Conflict(c)
        /\ Len(c.events) = 2 /\ c.i = 2
        /\ Occupied(BatchKeys(c)[1])

\* C8: the puts of a Save are in increasing version order, the put of an
\* event is sent only when the puts of all events before it have succeeded,
\* and in every state the events a call has put are a prefix of its batch.
C8_WritesFormPrefix ==
    \A p \in Procs :
        LET c == call[p]
            w == Len(c.writeLog)
        IN  c.op = "Save"
            => /\ w <= Len(c.events)
               /\ c.writeLog = SubSeq(BatchKeys(c), 1, w)
               /\ \A n, m \in 1 .. w : n < m => c.writeLog[n][3] < c.writeLog[m][3]
               /\ c.attempts \in {w, w + 1}
               /\ c.pc = "save_loop" => c.attempts = w /\ c.i = w + 1

\* C8, reached: both callers are in the loop of Save and each has put the
\* first event of its batch of two.
C8_Witness ==
    \A p \in Procs :
        /\ call[p].pc = "save_loop"
        /\ Len(call[p].events) = 2
        /\ Len(call[p].writeLog) = 1

\* C9: the handler is called for an event of a batch only when every event of
\* the batch is in the table; when all puts succeed and no handler call fails
\* it has been called once for each event, in batch order; it is not called
\* for any event of a batch that met a validation, encoding or put failure.
C9_HandlerAfterWrites ==
    \A p \in Procs :
        LET c == call[p]
        IN  c.op = "Save"
            => /\ c.handled # << >>
                  => WroteAll(c) /\ \A n \in 1 .. Len(c.events) : Occupied(BatchKeys(c)[n])
               /\ Len(c.handled) <= Len(c.events)
               /\ c.handled = SubSeq(c.events, 1, Len(c.handled))
               /\ SaveDone(c) /\ c.ret = NoError /\ eventHandler # Nil
                  => c.handled = c.events
               /\ SaveDone(c) /\ (ValidationError(c) \/ EncodingError(c) \/ WriteFailure(c))
                  => c.handled = << >>

\* C9, reached: a Save of two events has returned nil and the handler has been
\* called for both.
C9_Witness ==
    LET c == call["p1"]
    IN  SaveDone(c) /\ c.ret = NoError /\ Len(c.events) = 2 /\ c.handled = c.events

ReplaceDone(c) == c.op = "Replace" /\ c.pc = "done"

\* The keys of the records of the table t.
Keys(t) == {<<x.AggregateID, x.Version>> : x \in t}

\* The records of the aggregate id in the table t.
Stream(t, id) == {x \in t : x.AggregateID = id}

\* A request of the call failed in the store for another reason than its
\* condition.
RequestFailure(c) ==
    /\ c.ret.type = "EventStoreError"
    /\ c.ret.Err \in {"InternalServerError", "ResourceNotFoundException"}

\* C11: with no other writer, a Replace of an event whose aggregate has no
\* record leaves the table as it was and, its count request answered, returns
\* ErrAggregateNotFound; a Replace of an event whose slot holds a record, its
\* payload encodable and its requests answered, returns no error, and the
\* record then has the type, payload, metadata and time of the event and the
\* AggregateID and Version it had, every other record and the set of keys being
\* as before.
C11_ReplaceOverwritesSlot ==
    \A p \in Procs :
        LET c == call[p]
            e == c.events[1]
            tn == tableName(c.ctx)
            old == ItemAt(c.before, e.AggregateID, e.Version)
            new == ItemAt(tables[tn], e.AggregateID, e.Version)
        IN  ReplaceDone(c) =>
              /\ Stream(c.before, e.AggregateID) = {} =>
                    /\ tables[tn] = c.before
                    /\ c.attempts = 0
                    /\ ~RequestFailure(c) => c.ret = BareError("ErrAggregateNotFound")
              /\ (old # NoItem /\ e.Data # Unencodable /\ ~RequestFailure(c)) =>
                    /\ c.ret = NoError
                    /\ new.EventType = e.EventType
                    /\ new.RawData = MarshalMap(e.Data).av
                    /\ new.Metadata = e.Metadata
                    /\ new.Timestamp = e.Timestamp
                    /\ new.AggregateID = old.AggregateID /\ new.Version = old.Version
                    /\ tables[tn] \ {new} = c.before \ {old}
                    /\ Keys(tables[tn]) = Keys(c.before)

C11_Witness ==
    \E p \in Procs :
        LET c == call[p]
            e == c.events[1]
            old == ItemAt(c.before, e.AggregateID, e.Version)
            new == ItemAt(tables[tableName(c.ctx)], e.AggregateID, e.Version)
        IN  /\ ReplaceDone(c) /\ c.ret = NoError
            /\ old # NoItem /\ new # old
            /\ old.EventType = "A" /\ new.EventType = "B"
            /\ Cardinality(c.before) >= 3
            /\ Stream(c.before, "a1") # {} /\ Stream(c.before, "a2") # {}

RenameDone(c) == c.op = "RenameEvent" /\ c.pc = "done"

\* The records of the type t in the table tb.
Tagged(tb, t) == {x \in tb : x.EventType = t}

\* The call before the call c was a RenameEvent with the arguments of c that
\* returned no error.
RenamedBefore(c) ==
    c.prev = [op |-> "RenameEvent", from |-> c.from, to |-> c.to, ret |-> NoError]

\* C12: with no other writer and from # to, after a RenameEvent(from, to)
\* that returned no error no record has the type from and the keys (so the
\* versions) are as before; a second RenameEvent(from, to) right after it, its
\* scan answered, finds no record, makes no update request, returns no error
\* and leaves the table as it was.
C12_RenameTwice ==
    \A p \in Procs :
        LET c == call[p]
            tn == tableName(c.ctx)
        IN  (RenameDone(c) /\ c.from # c.to) =>
              /\ c.ret = NoError =>
                    /\ Tagged(tables[tn], c.from) = {}
                    /\ Keys(tables[tn]) = Keys(c.before)
              /\ (RenamedBefore(c) /\ ~RequestFailure(c)) =>
                    /\ c.dbEvents = << >>
                    /\ c.attempts = 0
                    /\ c.ret = NoError
                    /\ tables[tn] = c.before

C12_Witness ==
    \E p \in Procs :
        LET c == call[p]
        IN  /\ RenameDone(c) /\ c.from = "A" /\ c.to = "B"
            /\ RenamedBefore(c) /\ c.ret = NoError
            /\ Cardinality(Tagged(tables[tableName(c.ctx)], "B")) >= 3

\* The record x of the table before the call, as it is after a RenameEvent of
\* the call c that renamed it.
Renamed(c, x) == IF x.EventType = c.from THEN [x EXCEPT !.EventType = c.to] ELSE x

\* C13: with no other writer, at every point of a RenameEvent(from, to) each
\* record of the table is a record that was there before the call, either as
\* it was or, if its type was from, with the type to and every other field as
\* it was; the set of keys is as before; when the call has returned no error,
\* exactly the records that had the type from have changed.
C13_RenameChangesOnlyType ==
    \A p \in Procs :
        LET c == call[p]
            tn == tableName(c.ctx)
        IN  c.op = "RenameEvent" =>
              /\ Keys(tables[tn]) = Keys(c.before)
              /\ Cardinality(tables[tn]) = Cardinality(c.before)
              /\ \A x \in c.before : x \in tables[tn] \/ Renamed(c, x) \in tables[tn]
              /\ (RenameDone(c) /\ c.ret = NoError) =>
                    tables[tn] = {Renamed(c, x) : x \in c.before}

C13_Witness ==
    \E p \in Procs :
        LET c == call[p]
            tn == tableName(c.ctx)
        IN  /\ RenameDone(c) /\ c.ret = NoError /\ c.from = "A" /\ c.to = "B"
            /\ Cardinality(Tagged(c.before, "A")) >= 2
            /\ Tagged(c.before, "B") # {}
            /\ \E x \in Tagged(c.before, "A"), y \in Tagged(c.before, "B") :
                  x.AggregateID = y.AggregateID
            /\ tables[tn] # c.before

LoadDone(c) == c.op = "Load" /\ c.pc = "done"

LoadAllDone(c) == c.op = "LoadAll" /\ c.pc = "done"

\* The event l has the fields of the record x, but for the payload.
OfRecord(l, x) ==
    /\ l.AggregateID = x.AggregateID /\ l.Version = x.Version
    /\ l.EventType = x.EventType /\ l.Timestamp = x.Timestamp
    /\ l.AggregateType = x.AggregateType /\ l.Metadata = x.Metadata

\* The sequence of events r has one event for each record of the set S, and
\* no other event.
AllAndOnly(r, S) ==
    /\ Len(r) = Cardinality(S)
    /\ \A x \in S : \E n \in 1 .. Len(r) : OfRecord(r[n], x)
    /\ \A n \in 1 .. Len(r) : \E x \in S : OfRecord(r[n], x)

\* C14: a Load of the aggregate id that returns no error returns one event for
\* each record of id in the table and no other event, so no event of another
\* aggregate, in ascending version order; when the table does not exist, or
\* when it holds no record of id and the query is answered, Load returns an
\* empty sequence and no error.
C14_LoadReturnsStream ==
    \A p \in Procs :
        LET c == call[p]
            tn == tableName(c.ctx)
            S == Stream(c.before, c.aggregateID)
        IN  LoadDone(c) =>
              /\ c.ret = NoError =>
                    /\ AllAndOnly(c.result, S)
                    /\ \A n \in 1 .. Len(c.result) : c.result[n].AggregateID = c.aggregateID
                    /\ \A n, m \in 1 .. Len(c.result) :
                          n < m => c.result[n].Version < c.result[m].Version
              /\ ~TableExists(tn) => c.ret = NoError /\ c.result = << >>
              /\ (S = {} /\ ~RequestFailure(c)) => c.ret = NoError /\ c.result = << >>

C14_Witness ==
    \E p \in Procs :
        LET c == call[p]
        IN  /\ LoadDone(c) /\ c.ret = NoError
            /\ Len(c.result) = 3
            /\ Cardinality(c.before) > 3

\* The records a Load or LoadAll call read: the stream of its aggregate, or
\* the table.
ReadBy(c) == IF c.op = "Load" THEN Stream(c.before, c.aggregateID) ELSE c.before

\* C15: a Load or a LoadAll whose request the store answered does not fail on
\* a record whose type has no registered event data: it returns one event for
\* each record it read, those of a registered type included, and the event of
\* a record of a type that is not registered has no payload and the
\* AggregateID, Version, type, time, aggregate type and metadata of the record.
C15_UnregisteredTypeDecodes ==
    \A p \in Procs :
        LET c == call[p]
        IN  ( /\ LoadDone(c) \/ LoadAllDone(c)
              /\ ~RequestFailure(c)
              /\ \E x \in ReadBy(c) : x.EventType \notin RegisteredEventData )
            => /\ c.ret = NoError
               /\ AllAndOnly(c.result, ReadBy(c))
               /\ \A n \in 1 .. Len(c.result) :
                     c.result[n].EventType \notin RegisteredEventData
                     => c.result[n].data = NilValue

C15_Witness ==
    \E p \in Procs :
        LET c == call[p]
        IN  /\ LoadAllDone(c) /\ c.ret = NoError
            /\ Len(c.result) >= 3
            /\ \E n, m \in 1 .. Len(c.result) :
                  /\ n < m
                  /\ c.result[n].EventType = "B" /\ c.result[n].data = NilValue
                  /\ c.result[m].EventType = "A" /\ c.result[m].data = Payload(1)
            /\ \E x \in c.before : x.EventType = "B" /\ x.RawData # NilValue

\* C16: with no other writer, after a Save that returned no error a Load of
\* the aggregate returns, for every event of the batch whose type has
\* registered event data, an event with the same type, time, AggregateID,
\* aggregate type, Version, metadata and payload, the payload absent when the
\* saved event had none.
C16_SaveLoadRoundTrip ==
    \A p \in Procs :
        LET c == call[p]
            loaded == LoadOf(Items(tableName(c.ctx)), c.ctx, c.aggregateID)
        IN  (SaveDone(c) /\ c.ret = NoError) =>
              \A n \in 1 .. Len(c.events) :
                  c.events[n].EventType \in RegisteredEventData
                  => \E m \in 1 .. Len(loaded) : SameEvent(loaded[m], c.events[n])

\* The part of C16 that holds: the round trip of the events that have a
\* payload, and the record of an event without payload, which has no RawData.
RoundTripWithPayload ==
    \A p \in Procs :
        LET c == call[p]
            t == Items(tableName(c.ctx))
            loaded == LoadOf(t, c.ctx, c.aggregateID)
        IN  (SaveDone(c) /\ c.ret = NoError) =>
              \A n \in 1 .. Len(c.events) :
                  LET e == c.events[n]
                  IN  e.EventType \in RegisteredEventData
                      => IF e.Data # NilValue
                         THEN \E m \in 1 .. Len(loaded) : SameEvent(loaded[m], e)
                         ELSE /\ ItemAt(t, e.AggregateID, e.Version).RawData = NilValue
                              /\ \E m \in 1 .. Len(loaded) :
                                    /\ OfRecord(loaded[m], e)
                                    /\ loaded[m].data = CreateEventData(e.EventType).data

\* The table of the namespace ns, by the format of the name.
TableOf(ns) == <<TablePrefix, "_", ns>>

\* The namespace of the call that takes the step, p being its caller.
StepNamespace(p) == IF call[p].pc = "idle" THEN call'[p].ctx ELSE call[p].ctx

\* C17: the table of a call is the one named prefix, "_", namespace of its
\* context: every write of a call is to that table, a Load or LoadAll that
\* returns no error returns the events of the records of that table only, two
\* namespaces have two tables, and a step of a Save, Replace or RenameEvent
\* call (of any call) leaves the table of every other namespace as it was.
C17_NamespacesIsolated ==
    /\ [](\A p \in Procs :
            LET c == call[p]
            IN  c.pc # "idle" =>
                  /\ \A n \in 1 .. Len(c.writeLog) : c.writeLog[n][1] = TableOf(c.ctx)
                  /\ ((LoadDone(c) \/ LoadAllDone(c)) /\ c.ret = NoError) =>
                        AllAndOnly(c.result,
                                   IF c.op = "Load"
                                   THEN Stream(tables[TableOf(c.ctx)], c.aggregateID)
                                   ELSE tables[TableOf(c.ctx)]))
    /\ [][\A p \in Procs :
            call'[p] # call[p] =>
              \A other \in Namespaces \ {StepNamespace(p)} :
                  /\ tableName(other) # tableName(StepNamespace(p))
                  /\ tables'[tableName(other)] = tables[tableName(other)]]_vars

C17_Witness ==
    \E p \in Procs :
        LET c == call[p]
        IN  /\ RenameDone(c) /\ c.ret = NoError /\ c.ctx = "tenant"
            /\ c.from = "A" /\ c.to = "B"
            /\ Len(c.writeLog) >= 2
            /\ Cardinality(Tagged(tables[tableName("default")], "A")) >= 2
            /\ tables[tableName("tenant")] # c.before

\* C18: every error that Save, Load, LoadAll, Replace or RenameEvent returns
\* carries the namespace of the context of the call.
C18_ErrorsCarryNamespace ==
    \A p \in Procs :
        LET c == call[p]
        IN  ( /\ c.pc = "done"
              /\ c.op \in {"Save", "Load", "LoadAll", "Replace", "RenameEvent"}
              /\ c.ret # NoError )
            => c.ret.Namespace = NamespaceFromContext(c.ctx)

\* C19: with no other writer, a Replace of an event whose aggregate has a
\* record while the slot of the event holds none, its payload encodable and
\* its requests answered, returns ErrInvalidEvent after one put request and
\* leaves the table as it was; at every point of every Replace the set of keys
\* of the table is the one from before the call.
C19_ReplaceAddsNoKey ==
    \A p \in Procs :
        LET c == call[p]
            e == c.events[1]
            tn == tableName(c.ctx)
        IN  c.op = "Replace" =>
              /\ Keys(tables[tn]) = Keys(c.before)
              /\ ( /\ ReplaceDone(c)
                   /\ Stream(c.before, e.AggregateID) # {}
                   /\ ItemAt(c.before, e.AggregateID, e.Version) = NoItem
                   /\ e.Data # Unencodable
                   /\ ~RequestFailure(c) )
                 => /\ c.ret = BareError("ErrInvalidEvent")
                    /\ c.attempts = 1
                    /\ tables[tn] = c.before

C19_Witness ==
    \E p \in Procs :
        LET c == call[p]
            e == c.events[1]
        IN  /\ ReplaceDone(c) /\ c.ret = BareError("ErrInvalidEvent")
            /\ Cardinality(Stream(c.before, e.AggregateID)) >= 2
            /\ ItemAt(c.before, e.AggregateID, e.Version) = NoItem
            /\ ItemAt(tables[tableName(c.ctx)], e.AggregateID, e.Version) = NoItem
            /\ c.attempts = 1

\* The scanned record that the call c, in the loop of RenameEvent, updates
\* next, and the record at its key in the table.
NextScanned(c) == c.dbEvents[c.i]
AtNextScanned(c) ==
    ItemAt(tables[tableName(c.ctx)], NextScanned(c).AggregateID, NextScanned(c).Version)

\* C20: with the calls of two callers interleaved, an update request of
\* RenameEvent(from, to) for a scanned record whose type is not from any more
\* changes no record and ends the call with an EventStoreError that holds the
\* store's error and the namespace, the records scanned after it not being
\* requested; an update request that changes the table finds the type from
\* and changes the type of that one record to to.
C20_RenameUpdatesOnlyWhileTagged ==
    [][\A p \in Procs :
          (call[p].pc = "rename_update" /\ call'[p] # call[p]) =>
            LET c == call[p]
                d == call'[p]
                tn == tableName(c.ctx)
                x == AtNextScanned(c)
            IN  /\ x.EventType # c.from =>
                      /\ tables' = tables
                      /\ d.pc = "done"
                      /\ d.ret.type = "EventStoreError"
                      /\ d.ret.Err \in {"ConditionalCheckFailedException",
                                        "InternalServerError"}
                      /\ d.ret.BaseErr = d.ret.Err
                      /\ d.ret.Namespace = NamespaceFromContext(c.ctx)
                      /\ d.attempts = c.attempts + 1
                      /\ d.i = c.i /\ d.writeLog = c.writeLog
                /\ tables' # tables =>
                      /\ x.EventType = c.from
                      /\ tables'[tn] = (tables[tn] \ {x}) \cup {[x EXCEPT !.EventType = c.to]}
                      /\ d.ret = NoError]_vars

C20_Witness ==
    \E p \in Procs :
        LET c == call[p]
        IN  /\ RenameDone(c) /\ c.from = "A" /\ c.to = "B"
            /\ c.ret.Err = "ConditionalCheckFailedException"
            /\ Len(c.writeLog) >= 1
            /\ c.i < Len(c.dbEvents)
            /\ AtNextScanned(c).EventType = "B"
            /\ \E n \in c.i + 1 .. Len(c.dbEvents) :
                  ItemAt(tables[tableName(c.ctx)], c.dbEvents[n].AggregateID,
                         c.dbEvents[n].Version).EventType = "A"
            /\ \E q \in Procs \ {p} : call[q].op = "Replace"

\* The keys of the records of the table tn, with the table.
TableKeys(tn) == {<<tn, x.AggregateID, x.Version>> : x \in tables[tn]}

\* The caller p takes a step of the loop of Save.
SavePutStep(p) == call[p].op = "Save" /\ call[p].pc = "save_loop" /\ call'[p] # call[p]

\* C21: under any interleaving of the Save, Load, LoadAll, Replace and
\* RenameEvent calls of two callers, no step removes a key from a table; a
\* step that adds a key adds one key, is a put of the loop of Save for the
\* event the call is at, and the key had not been put before; and every key
\* of a table has been put by Save exactly once.
C21_KeysOnlyGrow ==
    /\ [](\A tn \in TableNames :
            /\ \A k \in TableKeys(tn) : PutsAt(k) = 1
            /\ \A x, y \in tables[tn] :
                  (x.AggregateID = y.AggregateID /\ x.Version = y.Version) => x = y)
    /\ [][\A tn \in TableNames :
            /\ TableKeys(tn) \subseteq TableKeys(tn)'
            /\ TableKeys(tn)' # TableKeys(tn) =>
                  \E p \in Procs :
                      LET e == call[p].events[call[p].i]
                          k == <<tn, e.AggregateID, e.Version>>
                      IN  /\ SavePutStep(p)
                          /\ tn = tableName(call[p].ctx)
                          /\ TableKeys(tn)' = TableKeys(tn) \cup {k}
                          /\ k \notin TableKeys(tn)
                          /\ PutsAt(k) = 0
                          /\ call'[p].writeLog = Append(call[p].writeLog, k)]_vars

C21_Witness ==
    /\ Cardinality(TableKeys(tableName("default"))) = MaxBatch
    /\ \E p, q \in Procs :
          /\ ReplaceDone(call[p]) /\ call[p].ret = NoError
          /\ RenameDone(call[q]) /\ call[q].ret = NoError /\ Len(call[q].writeLog) >= 1
          /\ p # q
          /\ Keys(call[p].before) # Keys(tables[tableName("default")])
          /\ tables[tableName("default")] # call[q].before

\* The highest version stored for the aggregate id in the table tn, 0 for none.
Highest(tn, id) == Cardinality(StoredVersions(tables[tn], id))

\* C22: when every Save of a caller has as original version the highest
\* version that a Load of the aggregate returned to that caller before, then
\* in every state, the puts of two callers interleaved in any way and a Save
\* ended at any event by a conflict or a failure of the store, the versions
\* stored for an aggregate are 1 .. n for some n, no caller knows a version
\* that is not stored, and the puts of a call are the versions that follow its
\* original version.
C22_ProtocolKeepsContiguous ==
    /\ \A id \in AggregateIDs :
          StoredVersions(tables[Default], id) = 1 .. Highest(Default, id)
    /\ \A p \in Procs :
          /\ \A id \in AggregateIDs : call[p].loaded[id] <= Highest(Default, id)
          /\ call[p].op = "Save" =>
                \A n \in 1 .. Len(call[p].writeLog) :
                    call[p].writeLog[n] =
                        <<Default, call[p].aggregateID, call[p].originalVersion + n>>

C22_Witness ==
    \E p, q \in Procs :
        /\ p # q
        /\ SaveDone(call[p]) /\ Conflict(call[p])
        /\ Len(call[p].writeLog) >= 1
        /\ call[q].op = "Save"
        /\ \E n \in 1 .. Len(call[q].writeLog) :
              call[q].writeLog[n] = BatchKeys(call[p])[call[p].i]
        /\ call[q].originalVersion > call[p].originalVersion
        /\ Highest(Default, "a1") = MaxVersion

====
